---- MODULE Spec2Model ----
(***************************************************************************)
(* Model of src/app.py: a Streamlit script that keeps a table of client    *)
(* records per browser session (st.session_state['clientes_df']), appends  *)
(* one record per valid form submission, rewrites crm_data.csv after each  *)
(* append, and renders a filtered dashboard of the session's table.        *)
(*                                                                         *)
(* Text is a sequence of one-character strings, so that what to_csv writes *)
(* and what read_csv infers from it are computed, not assumed.  Prices are *)
(* kept in hundredths (cents), so 50.0 is 5000.                            *)
(***************************************************************************)
EXTENDS Integers, Sequences, FiniteSets, TLC

VARIABLES
    file,           \* crm_data.csv: [exists, rows], rows are records of text cells
    session_state,  \* per session: [has, clientes_df]
    ui,             \* per session: what the form area showed in the last run
    dash,           \* per session: what the dashboard showed in the last run
    loaded,         \* history: the table init_data stored when the session began
    saves,          \* history: number of completed save_data calls per session
    submitted,      \* history: the record built by the session's latest valid submission
    writer          \* history: the session whose save_data completed most recently, 0 if none

vars == <<file, session_state, ui, dash, loaded, saves, submitted, writer>>

----------------------------------------------------------------------------
(* Bounds of the model *)

MaxSubmits == 2     \* valid submissions, over all sessions, in the two-session specification

MaxDashRows == 2    \* rows of the tables the dashboard specification starts from

Sessions == {1, 2}

----------------------------------------------------------------------------
(* Text: digits, integers, floats and dates as characters *)

DigitChars == <<"0", "1", "2", "3", "4", "5", "6", "7", "8", "9">>

IsDigit(c) == \E i \in 1..10 : DigitChars[i] = c

DigitVal(c) == (CHOOSE i \in 1..10 : DigitChars[i] = c) - 1

IsDigits(t) == Len(t) > 0 /\ \A i \in 1..Len(t) : IsDigit(t[i])

RECURSIVE IntToText(_)
IntToText(n) ==
    IF n < 10 THEN <<DigitChars[n + 1]>>
    ELSE IntToText(n \div 10) \o <<DigitChars[(n % 10) + 1]>>

RECURSIVE TextToInt(_)
TextToInt(t) ==
    IF Len(t) = 0 THEN 0
    ELSE TextToInt(SubSeq(t, 1, Len(t) - 1)) * 10 + DigitVal(t[Len(t)])

RECURSIVE Pad(_, _)
Pad(t, w) == IF Len(t) >= w THEN t ELSE Pad(<<"0">> \o t, w)

(* Position of the single "." of t, 0 when t has none or more than one *)
DotAt(t) ==
    LET dots == {i \in 1..Len(t) : t[i] = "."}
    IN  IF Cardinality(dots) = 1 THEN CHOOSE i \in dots : TRUE ELSE 0

IsFloatText(t) ==
    /\ DotAt(t) > 1
    /\ DotAt(t) < Len(t)
    /\ IsDigits(SubSeq(t, 1, DotAt(t) - 1))
    /\ IsDigits(SubSeq(t, DotAt(t) + 1, Len(t)))

(* repr of a float with at most two decimals: 5000 -> "50.0", 132250 -> "1322.5" *)
FormatFloat(c) ==
    LET frac == c % 100
    IN  IntToText(c \div 100) \o <<".">> \o
        (IF frac % 10 = 0 THEN IntToText(frac \div 10) ELSE Pad(IntToText(frac), 2))

(* Value in cents of a text with one or two decimals *)
ParseFloat(t) ==
    LET whole == SubSeq(t, 1, DotAt(t) - 1)
        frac  == SubSeq(t, DotAt(t) + 1, Len(t))
    IN  TextToInt(whole) * 100 +
        (IF Len(frac) = 1 THEN TextToInt(frac) * 10 ELSE TextToInt(SubSeq(frac, 1, 2)))

(* str(date): YYYY-MM-DD *)
FormatDate(d) ==
    Pad(IntToText(d[1]), 4) \o <<"-">> \o Pad(IntToText(d[2]), 2)
        \o <<"-">> \o Pad(IntToText(d[3]), 2)

IsDateText(t) ==
    /\ Len(t) = 10
    /\ t[5] = "-"
    /\ t[8] = "-"
    /\ IsDigits(SubSeq(t, 1, 4))
    /\ IsDigits(SubSeq(t, 6, 7))
    /\ IsDigits(SubSeq(t, 9, 10))

ParseDate(t) ==
    <<TextToInt(SubSeq(t, 1, 4)), TextToInt(SubSeq(t, 6, 7)), TextToInt(SubSeq(t, 9, 10))>>

----------------------------------------------------------------------------
(* Cell values of a DataFrame *)

StrV(t) == [k |-> "str", s |-> t, n |-> 0, d |-> <<>>]

IntV(i) == [k |-> "int", s |-> <<>>, n |-> i, d |-> <<>>]

FloatV(c) == [k |-> "float", s |-> <<>>, n |-> c, d |-> <<>>]

DateV(x) == [k |-> "date", s |-> <<>>, n |-> 0, d |-> x]

NaN == [k |-> "nan", s |-> <<>>, n |-> 0, d |-> <<>>]

(* Value of a numeric cell in cents *)
Cents(v) == IF v.k = "int" THEN v.n * 100 ELSE v.n

IsNumeric(v) == v.k \in {"int", "float"}

(* Python equality of two cell values: 7 == 7.0, "07" != 7, "" != nan *)
SameValue(a, b) ==
    IF IsNumeric(a) /\ IsNumeric(b) THEN Cents(a) = Cents(b)
    ELSE a.k # "nan" /\ a = b

Columns ==
    {"FechaDeServicio", "Empresa", "RUC", "TiempoDeServicio", "Conductor", "Precio",
     "Contacto", "Email", "Telefono", "Score", "Trabajadores", "TipoDeCliente"}

SameRecord(a, b) == \A c \in Columns : SameValue(a[c], b[c])

----------------------------------------------------------------------------
(* crm_data.csv: DataFrame.to_csv(index=False) and pd.read_csv *)

(* What to_csv writes for one cell; nan is written as the empty text *)
WriteCell(v) ==
    CASE v.k = "str"   -> v.s
      [] v.k = "int"   -> IntToText(v.n)
      [] v.k = "float" -> FormatFloat(v.n)
      [] v.k = "date"  -> FormatDate(v.d)
      [] v.k = "nan"   -> <<>>

WriteRow(r) == [c \in Columns |-> WriteCell(r[c])]

WriteCsv(df) == [i \in 1..Len(df) |-> WriteRow(df[i])]

(* Some of read_csv's default na_values *)
NaTexts == {<<>>, <<"N", "A">>, <<"N", "a", "N">>, <<"n", "a", "n">>, <<"n", "u", "l", "l">>}

IsNA(t) == t \in NaTexts

(* read_csv infers one dtype per column: int64 when every cell is an integer,  *)
(* float64 when every cell is a number or missing, object otherwise; missing   *)
(* cells become nan.                                                           *)
ReadColumn(cells) ==
    LET n      == Len(cells)
        allInt == \A i \in 1..n : IsDigits(cells[i])
        allNum == \A i \in 1..n : IsDigits(cells[i]) \/ IsFloatText(cells[i]) \/ IsNA(cells[i])
    IN  IF allInt THEN [i \in 1..n |-> IntV(TextToInt(cells[i]))]
        ELSE IF allNum
        THEN [i \in 1..n |->
                 IF IsNA(cells[i]) THEN NaN
                 ELSE IF IsDigits(cells[i]) THEN FloatV(TextToInt(cells[i]) * 100)
                 ELSE FloatV(ParseFloat(cells[i]))]
        ELSE [i \in 1..n |-> IF IsNA(cells[i]) THEN NaN ELSE StrV(cells[i])]

(* pd.to_datetime(col).dt.date on one cell *)
ToDate(v) ==
    IF v.k = "str" /\ IsDateText(v.s) THEN DateV(ParseDate(v.s)) ELSE NaN

ReadCsv(rows) ==
    LET n   == Len(rows)
        col == [c \in Columns |-> ReadColumn([i \in 1..n |-> rows[i][c]])]
    IN  [i \in 1..n |->
            [c \in Columns |->
                IF c = "FechaDeServicio" THEN ToDate(col[c][i]) ELSE col[c][i]]]

(* init_data: the table read from the file, or the empty table when there is  *)
(* no file, is stored only when the session has no table yet.                 *)
init_data(ss, f) ==
    LET df == IF f.exists THEN ReadCsv(f.rows) ELSE <<>>
    IN  IF ~ss.has THEN [has |-> TRUE, clientes_df |-> df] ELSE ss

(* A save that adds the newest row to what the file already holds *)
save_data_appending(f, df) ==
    [exists |-> TRUE, rows |-> f.rows \o <<WriteRow(df[Len(df)])>>]

(* save_data: the file after to_csv of the session's table has completed *)
save_data(f, df) == [exists |-> TRUE, rows |-> WriteCsv(df)]

(* What a to_csv can do: complete, raise at the open, or raise after it has   *)
(* truncated the file and written the header alone.                           *)
WriteOutcomes == {"done", "denied", "cut"}

(* The file after a to_csv that raised: as it was when the open failed,       *)
(* holding no rows when the write failed after the truncation.                *)
FailedSave(f, df, w) ==
    IF w = "denied" THEN f ELSE [exists |-> TRUE, rows |-> <<>>]

----------------------------------------------------------------------------
(* The dashboard: filter widgets, filtered view and KPI metrics *)

SetMin(S) == CHOOSE x \in S : \A y \in S : x <= y

SetMax(S) == CHOOSE x \in S : \A y \in S : x >= y

RECURSIVE SumSeq(_)
SumSeq(q) == IF Len(q) = 0 THEN 0 ELSE q[1] + SumSeq(Tail(q))

Precios(df) == [i \in 1..Len(df) |-> Cents(df[i].Precio)]

Scores(df) == [i \in 1..Len(df) |-> df[i].Score.n]

(* df['Tipo de Cliente'].unique() *)
tipos_cliente(df) == {df[i].TipoDeCliente : i \in 1..Len(df)}

precio_min_actual(df) == SetMin({Cents(df[i].Precio) : i \in 1..Len(df)})

precio_max_actual(df) == SetMax({Cents(df[i].Precio) : i \in 1..Len(df)})

slider_min(df) == precio_min_actual(df)

(* An upper bound that is just the observed maximum *)
slider_max_observed(df) == precio_max_actual(df)

(* max + 10.0 when the only price is 0, max * 1.05 + 10.0 when it is not *)
slider_max(df) ==
    LET lo == precio_min_actual(df)
        hi == precio_max_actual(df)
    IN  IF lo = hi
        THEN IF hi = 0 THEN hi + 1000 ELSE (hi * 105) \div 100 + 1000
        ELSE hi

slider_default(df) ==
    LET lo == precio_min_actual(df)
        hi == precio_max_actual(df)
    IN  IF lo = hi THEN <<lo, slider_max(df)>> ELSE <<lo, hi>>

NoCriteria == [tipo_seleccionado |-> {}, min_score |-> 0, min_price |-> 0, max_price |-> 0]

(* Defaults that start the minimum score where the form's score slider starts *)
DefaultCriteria_score500(df) ==
    IF df = <<>> THEN NoCriteria
    ELSE LET range == slider_default(df)
         IN  [tipo_seleccionado |-> tipos_cliente(df),
              min_score         |-> 500,
              min_price         |-> range[1],
              max_price         |-> range[2]]

(* The widgets' values when the user has touched none of them *)
DefaultCriteria(df) ==
    IF df = <<>> THEN NoCriteria
    ELSE LET range == slider_default(df)
         IN  [tipo_seleccionado |-> tipos_cliente(df),
              min_score         |-> 0,
              min_price         |-> range[1],
              max_price         |-> range[2]]

(* A filter whose upper price bound is exclusive *)
df_filtrado_exclusive(df, crit) ==
    SelectSeq(df, LAMBDA r :
        /\ r.TipoDeCliente \in crit.tipo_seleccionado
        /\ r.Score.n >= crit.min_score
        /\ Cents(r.Precio) >= crit.min_price
        /\ Cents(r.Precio) < crit.max_price)

(* The boolean mask keeps the rows of df, in order, that pass all four tests *)
df_filtrado(df, crit) ==
    SelectSeq(df, LAMBDA r :
        /\ r.TipoDeCliente \in crit.tipo_seleccionado
        /\ r.Score.n >= crit.min_score
        /\ Cents(r.Precio) >= crit.min_price
        /\ Cents(r.Precio) <= crit.max_price)

(* Nearest integer to num / den, ties to the even neighbour (den > 0, num >= 0) *)
RoundHalfEven(num, den) ==
    LET q == num \div den
        r == num % den
    IN  IF 2 * r < den THEN q
        ELSE IF 2 * r > den THEN q + 1
        ELSE IF q % 2 = 0 THEN q ELSE q + 1

RECURSIVE GroupThousands(_)
GroupThousands(t) ==
    IF Len(t) <= 3 THEN t
    ELSE GroupThousands(SubSeq(t, 1, Len(t) - 3)) \o <<",">> \o SubSeq(t, Len(t) - 2, Len(t))

(* f"${x:,.2f}" of x = c / 100 *)
FormatMoney(c) ==
    <<"$">> \o GroupThousands(IntToText(c \div 100)) \o <<".">> \o Pad(IntToText(c % 100), 2)

PrecioSentinel == <<"$", "0", ".", "0", "0">>

ScoreSentinel == <<"N", "/", "A">>

(* "Precio Promedio Filtrado" *)
precio_promedio(v) ==
    IF v = <<>> THEN PrecioSentinel
    ELSE FormatMoney(RoundHalfEven(SumSeq(Precios(v)), Len(v)))

(* A score metric with no test for the empty view: the mean of no rows is nan *)
score_promedio_unguarded(v) ==
    IF v = <<>> THEN <<"n", "a", "n">>
    ELSE IntToText(RoundHalfEven(SumSeq(Scores(v)), Len(v)))

(* "Score Promedio Filtrado": f"{mean:.0f}" *)
score_promedio(v) ==
    IF v = <<>> THEN ScoreSentinel
    ELSE IntToText(RoundHalfEven(SumSeq(Scores(v)), Len(v)))

NotRendered ==
    [mode |-> "none", crit |-> NoCriteria, slider |-> <<0, 0>>, df |-> <<>>,
     df_filtrado |-> <<>>, precio_promedio |-> <<>>, score_promedio |-> <<>>]

(* Lines 133-191: what one run of the script shows below the form *)
Dashboard(df, crit) ==
    IF df = <<>>
    THEN [NotRendered EXCEPT !.mode = "info"]
    ELSE LET v == df_filtrado(df, crit)
         IN  [mode            |-> "dashboard",
              crit            |-> crit,
              slider          |-> <<slider_min(df), slider_max(df)>>,
              df              |-> df,
              df_filtrado     |-> v,
              precio_promedio |-> precio_promedio(v),
              score_promedio  |-> score_promedio(v)]

----------------------------------------------------------------------------
(* The form *)

Nuevo == <<"N", "u", "e", "v", "o">>

Antiguo == <<"A", "n", "t", "i", "g", "u", "o">>

ConConductor == <<"C", "o", "n", " ", "C", "o", "n", "d", "u", "c", "t", "o", "r">>

(* The widgets' values at one press of the submit button *)
FormBase ==
    [fecha_servicio |-> <<2026, 11, 2>>,
     empresa        |-> <<"A">>,
     ruc            |-> <<"R">>,
     tiempo_dias    |-> 1,
     precio         |-> 125000,
     con_conductor  |-> ConConductor,
     contacto       |-> <<"B">>,
     email          |-> <<"e">>,
     telefono       |-> <<"9", "-", "1">>,
     score          |-> 500,
     trabajadores   |-> 1,
     tipo_cliente   |-> Nuevo]

(* Forms of the two-session specification: two valid ones (a RUC with a      *)
(* leading zero and no email; a RUC with a letter and an email) and one      *)
(* invalid form for each required field left empty.                          *)
Forms ==
    {[FormBase EXCEPT !.ruc = <<"0", "7">>, !.email = <<>>],
     FormBase,
     [FormBase EXCEPT !.empresa = <<>>],
     [FormBase EXCEPT !.ruc = <<>>],
     [FormBase EXCEPT !.contacto = <<>>]}

(* Forms behind the tables of the dashboard specification *)
DashForms ==
    {[FormBase EXCEPT !.precio = 0,      !.score = 300, !.tipo_cliente = Nuevo],
     [FormBase EXCEPT !.precio = 0,      !.score = 701, !.tipo_cliente = Antiguo],
     [FormBase EXCEPT !.precio = 125000, !.score = 300, !.tipo_cliente = Antiguo],
     [FormBase EXCEPT !.precio = 125000, !.score = 701, !.tipo_cliente = Nuevo]}

(* A validation that looks at Empresa alone *)
Invalid_empresa_only(f) == f.empresa = <<>>

(* Line 101: not empresa or not ruc or not contacto *)
Invalid(f) == f.empresa = <<>> \/ f.ruc = <<>> \/ f.contacto = <<>>

(* Lines 105-118 *)
new_entry(f) ==
    [FechaDeServicio  |-> DateV(f.fecha_servicio),
     Empresa          |-> StrV(f.empresa),
     RUC              |-> StrV(f.ruc),
     TiempoDeServicio |-> IntV(f.tiempo_dias),
     Conductor        |-> StrV(f.con_conductor),
     Precio           |-> FloatV(f.precio),
     Contacto         |-> StrV(f.contacto),
     Email            |-> StrV(f.email),
     Telefono         |-> StrV(f.telefono),
     Score            |-> IntV(f.score),
     Trabajadores     |-> IntV(f.trabajadores),
     TipoDeCliente    |-> StrV(f.tipo_cliente)]

(* A concat that puts the new row first *)
concat_front(df, e) == <<e>> \o df

(* Lines 121-122: pd.concat([clientes_df, new_df], ignore_index=True) *)
concat(df, e) == Append(df, e)

----------------------------------------------------------------------------
(* Script runs *)

NoSession == [has |-> FALSE, clientes_df |-> <<>>]

(* Valid submissions made so far, over all sessions *)
Submitted ==
    LET grown(s) == Len(session_state[s].clientes_df) - Len(loaded[s])
    IN  grown(1) + grown(2)

TableAfterInit(s) == init_data(session_state[s], file).clientes_df

(* Values the filter widgets can be set to over df *)
CriteriaChoices(df) ==
    IF df = <<>> THEN {NoCriteria}
    ELSE LET mid    == (slider_min(df) + slider_max(df)) \div 2
             points == {slider_min(df), mid, slider_max(df)}
         IN  {[tipo_seleccionado |-> ts, min_score |-> ms, min_price |-> lo, max_price |-> hi] :
                 ts \in SUBSET tipos_cliente(df), ms \in {0, 300, 301},
                 lo \in points, hi \in points}

(* One run of the script without a form submission: the first run of a       *)
(* session stores the table, every run renders the dashboard under crit.     *)
Run(s, crit) ==
    LET ss == init_data(session_state[s], file)
    IN  /\ crit \in CriteriaChoices(ss.clientes_df)
        /\ crit.min_price <= crit.max_price
        /\ session_state' = [session_state EXCEPT ![s] = ss]
        /\ ui' = [ui EXCEPT ![s] = "form"]
        /\ dash' = [dash EXCEPT ![s] = Dashboard(ss.clientes_df, crit)]
        /\ loaded' = IF session_state[s].has THEN loaded
                     ELSE [loaded EXCEPT ![s] = ss.clientes_df]
        /\ UNCHANGED <<file, saves, submitted, writer>>

(* One run of the script with the submit button pressed (lines 99-126, then  *)
(* the dashboard); w is what to_csv does if save_data is reached.  An        *)
(* exception raised by save_data ends the run: no success message and no     *)
(* dashboard.                                                                *)
Submit(s, f, w) ==
    LET ss  == init_data(session_state[s], file)
        df  == ss.clientes_df
        df2 == concat(df, new_entry(f))
    IN  /\ session_state[s].has
        /\ Invalid(f) \/ Submitted < MaxSubmits
        /\ IF Invalid(f)
           THEN /\ ui' = [ui EXCEPT ![s] = "error"]
                /\ session_state' = [session_state EXCEPT ![s] = ss]
                /\ dash' = [dash EXCEPT ![s] = Dashboard(df, DefaultCriteria(df))]
                /\ UNCHANGED <<file, saves, submitted, writer>>
           ELSE /\ session_state' = [session_state EXCEPT ![s].clientes_df = df2]
                /\ submitted' = [submitted EXCEPT ![s] = <<new_entry(f)>>]
                /\ IF w = "done"
                   THEN /\ file' = save_data(file, df2)
                        /\ ui' = [ui EXCEPT ![s] = "success"]
                        /\ dash' = [dash EXCEPT ![s] = Dashboard(df2, DefaultCriteria(df2))]
                        /\ saves' = [saves EXCEPT ![s] = @ + 1]
                        /\ writer' = s
                   ELSE /\ file' = FailedSave(file, df2, w)
                        /\ ui' = [ui EXCEPT ![s] = "exception"]
                        /\ dash' = [dash EXCEPT ![s] = NotRendered]
                        /\ UNCHANGED <<saves, writer>>
        /\ UNCHANGED loaded

----------------------------------------------------------------------------
(* Two sessions sharing crm_data.csv, filter widgets left at their defaults *)

NoFile == [exists |-> FALSE, rows |-> <<>>]

(* crm_data.csv when the two sessions begin: absent, or left by an earlier   *)
(* session that registered one client.                                      *)
InitialFiles ==
    {NoFile} \cup {save_data(NoFile, <<new_entry(f)>>) : f \in {g \in Forms : ~Invalid(g)}}

Init ==
    /\ file \in InitialFiles
    /\ session_state = [s \in Sessions |-> NoSession]
    /\ ui = [s \in Sessions |-> "none"]
    /\ dash = [s \in Sessions |-> NotRendered]
    /\ loaded = [s \in Sessions |-> <<>>]
    /\ saves = [s \in Sessions |-> 0]
    /\ submitted = [s \in Sessions |-> <<>>]
    /\ writer = 0

Next ==
    \/ \E s \in Sessions : Run(s, DefaultCriteria(TableAfterInit(s)))
    \/ \E s \in Sessions, f \in Forms :
          \E w \in (IF Invalid(f) THEN {"done"} ELSE WriteOutcomes) : Submit(s, f, w)

Spec == Init /\ [][Next]_vars

----------------------------------------------------------------------------
(* One session whose table is already filled, the user moving the filters *)

RECURSIVE TablesUpTo(_)
TablesUpTo(n) ==
    IF n = 0 THEN {<<>>}
    ELSE LET shorter == TablesUpTo(n - 1)
         IN  shorter \cup {Append(t, new_entry(f)) : t \in shorter, f \in DashForms}

InitDash ==
    \E t \in TablesUpTo(MaxDashRows) \ {<<>>} :
        /\ file = save_data(NoFile, t)
        /\ session_state = [s \in Sessions |->
                               IF s = 1 THEN [has |-> TRUE, clientes_df |-> t] ELSE NoSession]
        /\ ui = [s \in Sessions |-> IF s = 1 THEN "success" ELSE "none"]
        /\ dash = [s \in Sessions |->
                      IF s = 1 THEN Dashboard(t, DefaultCriteria(t)) ELSE NotRendered]
        /\ loaded = [s \in Sessions |-> <<>>]
        /\ saves = [s \in Sessions |-> IF s = 1 THEN Len(t) ELSE 0]
        /\ submitted = [s \in Sessions |-> IF s = 1 THEN <<t[Len(t)]>> ELSE <<>>]
        /\ writer = 1

NextDash ==
    \E crit \in CriteriaChoices(session_state[1].clientes_df) : Run(1, crit)

SpecDash == InitDash /\ [][NextDash]_vars

----------------------------------------------------------------------------
(* Properties of the two sessions sharing the file (checked under Spec) *)

Table(s) == session_state[s].clientes_df

IsPrefix(a, b) == Len(a) <= Len(b) /\ SubSeq(b, 1, Len(a)) = a

Range(q) == {q[i] : i \in 1..Len(q)}

RequiredMissing(f) == f.empresa = <<>> \/ f.ruc = <<>> \/ f.contacto = <<>>

(* C1: a submission with Empresa, RUC or Contacto empty reports the         *)
(* validation error, signals no success, and leaves the session's table and *)
(* the persisted file exactly as they were.  (save_data is not reached, so  *)
(* the step is the same whatever to_csv would have done.)                   *)
C1_RejectedSubmissionChangesNothing ==
    [][\A s \in Sessions, f \in Forms :
          (RequiredMissing(f) /\ Submit(s, f, "done")) =>
              /\ ui'[s] = "error"
              /\ session_state'[s] = session_state[s]
              /\ file' = file]_vars

C1_Witness ==
    \E s \in Sessions : ui[s] = "error" /\ Table(s) # <<>> /\ file.exists

(* C2: the session's table is append-only: no run removes, changes or       *)
(* reorders a row, and a successful submission adds exactly the submitted   *)
(* record as the new last row.                                              *)
C2_TableIsAppendOnly ==
    [][\A s \in Sessions :
          session_state[s].has =>
              /\ IsPrefix(session_state[s].clientes_df, session_state'[s].clientes_df)
              /\ \A f \in Forms :
                    (~RequiredMissing(f) /\ Submit(s, f, "done")) =>
                        session_state'[s].clientes_df =
                            session_state[s].clientes_df \o <<new_entry(f)>>]_vars

C2_Witness ==
    \E s \in Sessions :
        /\ saves[s] >= 1
        /\ ui[s] = "success"
        /\ Len(Table(s)) >= 2
        /\ Table(s)[Len(Table(s))] = submitted[s][1]

(* C3: after a successful submission, a fresh session that loads the        *)
(* persisted file gets a table whose last row equals the submitted record   *)
(* in all 12 fields.                                                        *)
C3_ReloadReturnsCandidate ==
    [][\A t \in Sessions :
          (/\ ~session_state[t].has
           /\ session_state'[t].has
           /\ writer # 0
           /\ ui[writer] = "success"
           /\ file = save_data(file, session_state[writer].clientes_df))
          => LET df == session_state'[t].clientes_df
             IN  /\ df # <<>>
                 /\ SameRecord(df[Len(df)], submitted[writer][1])]_vars

(* C4: right after a successful submission the file holds exactly the       *)
(* submitting session's table, whatever it held before.                     *)
C4_SaveOverwritesWithSessionTable ==
    [][\A s \in Sessions, f \in Forms :
          (~RequiredMissing(f) /\ Submit(s, f, "done")) =>
              file' = [exists |-> TRUE, rows |-> WriteCsv(session_state'[s].clientes_df)]]_vars

C4_Witness ==
    \E s, t \in Sessions :
        /\ s # t
        /\ writer = s
        /\ ui[s] = "success"
        /\ saves[t] >= 1
        /\ file.rows = WriteCsv(Table(s))
        /\ WriteRow(submitted[t][1]) \notin Range(file.rows)

(* Both sessions began from the same file content, each made exactly one    *)
(* valid submission, each was saved and answered with the success message   *)
SubmittedOnceEach(s, t) ==
    /\ s # t
    /\ session_state[s].has /\ session_state[t].has
    /\ loaded[s] = loaded[t]
    /\ saves[s] = 1 /\ saves[t] = 1
    /\ Len(Table(s)) = Len(loaded[s]) + 1
    /\ Len(Table(t)) = Len(loaded[t]) + 1
    /\ ui[s] = "success" /\ ui[t] = "success"

(* C5: when two sessions loaded the same file and each submitted one record *)
(* successfully, the file holds the loaded records plus the later writer's  *)
(* record only, and neither session saw an error.                           *)
C5_LaterWriteWins ==
    \A s, t \in Sessions :
        (SubmittedOnceEach(s, t) /\ writer = t) =>
            /\ file.exists
            /\ file.rows = WriteCsv(loaded[t]) \o <<WriteRow(submitted[t][1])>>

C5_Witness ==
    \E s, t \in Sessions :
        /\ SubmittedOnceEach(s, t)
        /\ writer = t
        /\ loaded[t] # <<>>
        /\ WriteRow(submitted[s][1]) \notin Range(file.rows)

(* C10: when save_data fails, no success is signalled and the submitted     *)
(* record is not left in the session's table while absent from the file.    *)
C10_FailedSaveLeavesTableConsistent ==
    \A s \in Sessions :
        ui[s] = "exception" =>
            ~(/\ Table(s) # <<>>
              /\ Table(s)[Len(Table(s))] = submitted[s][1]
              /\ WriteRow(submitted[s][1]) \notin Range(file.rows))

----------------------------------------------------------------------------
(* Properties of the dashboard (checked under SpecDash) *)

TypesPresent(df) == {df[i].TipoDeCliente : i \in 1..Len(df)}

PricesPresent(df) == {Cents(df[i].Precio) : i \in 1..Len(df)}

(* The claim's inclusion test: type selected, score at least the minimum,   *)
(* price within the range, both ends included                               *)
Qualifies(r, c) ==
    /\ r.TipoDeCliente \in c.tipo_seleccionado
    /\ r.Score.n >= c.min_score
    /\ c.min_price <= Cents(r.Precio)
    /\ Cents(r.Precio) <= c.max_price

(* C6: the filtered view is exactly the rows of the table that qualify, in  *)
(* table order: as many rows as qualify, the j-th of them being the j-th    *)
(* qualifying row of the table.                                             *)
C6_FilterIsExactSubsequence ==
    dash[1].mode = "dashboard" =>
        LET df     == Table(1)
            v      == dash[1].df_filtrado
            idx    == {i \in 1..Len(df) : Qualifies(df[i], dash[1].crit)}
            nth(j) == CHOOSE i \in idx : Cardinality({m \in idx : m <= i}) = j
        IN  /\ Len(v) = Cardinality(idx)
            /\ \A j \in 1..Len(v) : v[j] = df[nth(j)]

C6_Witness ==
    /\ dash[1].mode = "dashboard"
    /\ dash[1].df_filtrado # <<>>
    /\ Len(dash[1].df_filtrado) < Len(Table(1))
    /\ \E i \in 1..Len(Table(1)) :
          /\ Cents(Table(1)[i].Precio) = dash[1].crit.max_price
          /\ Table(1)[i] \in Range(dash[1].df_filtrado)

(* C7: the default criteria of a non-empty table are all client types       *)
(* present, minimum score 0 and the slider's default pair, and under them   *)
(* the filtered view is the whole table.                                    *)
C7_DefaultsSelectEverything ==
    dash[1].mode = "dashboard" =>
        LET df == Table(1)
            c  == DefaultCriteria(df)
        IN  /\ c.tipo_seleccionado = TypesPresent(df)
            /\ c.min_score = 0
            /\ <<c.min_price, c.max_price>> = slider_default(df)
            /\ dash[1].crit = c => dash[1].df_filtrado = df

C7_Witness ==
    /\ dash[1].mode = "dashboard"
    /\ dash[1].crit = DefaultCriteria(Table(1))
    /\ Len(Table(1)) >= 2
    /\ Cardinality(PricesPresent(Table(1))) = 1
    /\ dash[1].df_filtrado = Table(1)

(* C8: the price slider runs from the observed minimum to a strictly larger *)
(* bound: the observed maximum when prices differ, at least p + 10 (exactly *)
(* 10 when p = 0) when every price is p.                                    *)
C8_SliderSpanIsNotDegenerate ==
    dash[1].mode = "dashboard" =>
        LET ps == PricesPresent(Table(1))
            lo == dash[1].slider[1]
            hi == dash[1].slider[2]
        IN  /\ lo < hi
            /\ lo \in ps /\ \A p \in ps : lo <= p
            /\ Cardinality(ps) = 1 => hi >= lo + 1000 /\ (lo = 0 => hi = 1000)
            /\ Cardinality(ps) > 1 => hi \in ps /\ \A p \in ps : p <= hi

C8_Witness ==
    /\ dash[1].mode = "dashboard"
    /\ PricesPresent(Table(1)) = {125000}
    /\ dash[1].slider = <<125000, 132250>>

(* The number a metric shows: "$1,250.00" is 125000 cents, "500" is 500 *)
ShownCents(t) == ParseFloat(SelectSeq(t, LAMBDA ch : ch \notin {"$", ","}))

ShownScore(t) == TextToInt(t)

EmptyViewShowsSentinels ==
    dash[1].df_filtrado = <<>> =>
        /\ dash[1].precio_promedio = <<"$", "0", ".", "0", "0">>
        /\ dash[1].score_promedio = <<"N", "/", "A">>

(* C9 as stated: an empty view shows "$0.00" and "N/A", a non-empty view    *)
(* shows the arithmetic means of price and of score over its rows.          *)
C9_MetricsShowExactMeans ==
    dash[1].mode = "dashboard" =>
        LET v == dash[1].df_filtrado
        IN  /\ EmptyViewShowsSentinels
            /\ v # <<>> =>
                  /\ ShownCents(dash[1].precio_promedio) * Len(v) = SumSeq(Precios(v))
                  /\ ShownScore(dash[1].score_promedio) * Len(v) = SumSeq(Scores(v))

Dist(a, b) == IF a >= b THEN a - b ELSE b - a

(* C9 as amended: an empty view shows "$0.00" and "N/A", a non-empty view   *)
(* shows the mean price over its rows rounded to the nearest cent and the   *)
(* mean score over its rows rounded to the nearest integer.                 *)
C9_MetricsShowRoundedMeans ==
    dash[1].mode = "dashboard" =>
        LET v == dash[1].df_filtrado
        IN  /\ EmptyViewShowsSentinels
            /\ v # <<>> =>
                  /\ IsDigits(dash[1].score_promedio)
                  /\ 2 * Dist(ShownCents(dash[1].precio_promedio) * Len(v), SumSeq(Precios(v)))
                         <= Len(v)
                  /\ 2 * Dist(ShownScore(dash[1].score_promedio) * Len(v), SumSeq(Scores(v)))
                         <= Len(v)

C9_Witness ==
    /\ dash[1].mode = "dashboard"
    /\ Len(dash[1].df_filtrado) >= 2
    /\ SumSeq(Scores(dash[1].df_filtrado)) % Len(dash[1].df_filtrado) # 0
    /\ dash[1].score_promedio = <<"5", "0", "0">>

====
